---- MODULE Spec2Model ----
\* Model of pr_agent/servers/serverless.py: the module-level bootstrap that loads
\* the secrets of the service from AWS Secrets Manager into os.environ
\* (load_secrets) and only then builds the FastAPI application, the router and
\* the Mangum handler.
\*
\* Texts (Python str) are sequences of Unicode code points, bytes are sequences
\* of 0..255. Dictionary keys and exception names are TLA+ strings.
EXTENDS Integers, Sequences, FiniteSets, TLC

\* ---------------------------------------------------------------- bounds

\* How many times the module body may be executed in one process (a failed
\* import leaves no module behind, so the import can be attempted again).
MaxRuns == 2

\* How many events the handler is given once the module is imported.
MaxRequests == 2

\* ------------------------------------------------------- mapping (l.12-17)

\* SECRET_ENV_MAPPING.keys(), in insertion order.
SECRET_KEYS ==
    <<"openai_key", "github_app_id", "github_webhook_secret", "github_private_key">>

\* SECRET_ENV_MAPPING as a function from secret key to environment variable.
SECRET_ENV_MAPPING ==
    [k \in {SECRET_KEYS[j] : j \in 1..Len(SECRET_KEYS)} |->
        CASE k = "openai_key" -> "DYNACONF_OPENAI__KEY"
          [] k = "github_app_id" -> "DYNACONF_GITHUB__APP_ID"
          [] k = "github_webhook_secret" -> "DYNACONF_GITHUB__WEBHOOK_SECRET"
          [] k = "github_private_key" -> "DYNACONF_GITHUB__PRIVATE_KEY"]

\* SECRET_ENV_MAPPING.values() as a set.
ENV_VARS == {SECRET_ENV_MAPPING[k] : k \in DOMAIN SECRET_ENV_MAPPING}

\* ------------------------------------------------------------ Python values

\* A JSON / Python value held under a key of the secret: a str or an int.
StrVal(s) == [t |-> "str", s |-> s, n |-> 0]
IntVal(n) == [t |-> "int", s |-> <<>>, n |-> n]

\* ASCII digits of a natural number, most significant first.
RECURSIVE Digits(_)
Digits(n) == IF n < 10 THEN <<48 + n>> ELSE Digits(n \div 10) \o <<48 + (n % 10)>>

\* str(value) of line 67: a str is itself, an int is its decimal text.
PyStr(v) == IF v.t = "str" THEN v.s
            ELSE IF v.n < 0 THEN <<45>> \o Digits(0 - v.n) ELSE Digits(v.n)

\* An optional text, as os.environ.get and dict.get return it (None or a str).
None == [some |-> FALSE, s |-> <<>>]
Some(s) == [some |-> TRUE, s |-> s]

\* Truthy with the empty text taken for a name, as `is not None` would: C4
\* does not hold of it.
TruthyWhenEmpty(x) == x.some

\* Truthiness of an optional text: None and "" are falsy (`not x`, l.35).
Truthy(x) == x.some /\ x.s # <<>>

\* ------------------------------------------- base64.b64decode (l.64, left)

\* The result of an operation that may raise: ok, the value, or the exception.
Ok(v) == [ok |-> TRUE, v |-> v, err |-> "None"]
Raise(e) == [ok |-> FALSE, v |-> <<>>, err |-> e]

\* The 6-bit value of a character of the base64 alphabet, 64 for any other.
B64Value(c) ==
    IF c \in 65..90 THEN c - 65
    ELSE IF c \in 97..122 THEN c - 71
    ELSE IF c \in 48..57 THEN c + 4
    ELSE IF c = 43 THEN 62
    ELSE IF c = 47 THEN 63
    ELSE 64

\* binascii.a2b_base64 without strict mode, as b64decode(s) calls it: a
\* character outside the alphabet is skipped, a pad that completes a quad ends
\* the input, and leftover data characters are an error.
RECURSIVE A2bBase64(_, _, _, _, _, _)
A2bBase64(s, i, quad_pos, leftchar, pads, out) ==
    IF i > Len(s)
    THEN IF quad_pos # 0 THEN Raise("binascii.Error") ELSE Ok(out)
    ELSE IF s[i] = 61
    THEN IF quad_pos >= 2 /\ quad_pos + pads + 1 >= 4
         THEN Ok(out)
         ELSE A2bBase64(s, i + 1, quad_pos, leftchar,
                        IF quad_pos >= 2 THEN pads + 1 ELSE pads, out)
    ELSE LET ch == B64Value(s[i]) IN
         IF ch >= 64 THEN A2bBase64(s, i + 1, quad_pos, leftchar, pads, out)
         ELSE CASE quad_pos = 0 -> A2bBase64(s, i + 1, 1, ch, 0, out)
                [] quad_pos = 1 ->
                     A2bBase64(s, i + 1, 2, ch % 16, 0,
                               Append(out, leftchar * 4 + ch \div 16))
                [] quad_pos = 2 ->
                     A2bBase64(s, i + 1, 3, ch % 4, 0,
                               Append(out, leftchar * 16 + ch \div 4))
                [] quad_pos = 3 ->
                     A2bBase64(s, i + 1, 0, 0, 0, Append(out, leftchar * 64 + ch))

\* base64.b64decode(value): the argument must be a str of ASCII characters.
B64Decode(v) ==
    IF v.t # "str" THEN Raise("TypeError")
    ELSE IF \E j \in 1..Len(v.s) : v.s[j] > 127 THEN Raise("ValueError")
    ELSE A2bBase64(v.s, 1, 0, 0, 0, <<>>)

\* --------------------------------------------- bytes.decode('utf-8') (l.64)

IsCont(b) == b \in 128..191

\* Utf8Decode taking every byte for a character, as decode('latin-1') would:
\* C12 does not hold of it.
Utf8DecodeLatin1(b, i, out) == Ok(b)

\* Strict UTF-8: shortest form only, no surrogates, nothing above U+10FFFF.
RECURSIVE Utf8Decode(_, _, _)
Utf8Decode(b, i, out) ==
    IF i > Len(b) THEN Ok(out)
    ELSE LET b0 == b[i]
             has(k) == i + k <= Len(b)
             second(lo, hi) == has(1) /\ b[i + 1] \in lo..hi
             bad == Raise("UnicodeDecodeError")
         IN
         IF b0 < 128 THEN Utf8Decode(b, i + 1, Append(out, b0))
         ELSE IF b0 \in 194..223
         THEN IF second(128, 191)
              THEN Utf8Decode(b, i + 2,
                              Append(out, (b0 - 192) * 64 + (b[i + 1] - 128)))
              ELSE bad
         ELSE IF b0 \in 224..239
         THEN IF /\ second(IF b0 = 224 THEN 160 ELSE 128,
                           IF b0 = 237 THEN 159 ELSE 191)
                 /\ has(2) /\ IsCont(b[i + 2])
              THEN Utf8Decode(b, i + 3,
                              Append(out, (b0 - 224) * 4096 + (b[i + 1] - 128) * 64
                                          + (b[i + 2] - 128)))
              ELSE bad
         ELSE IF b0 \in 240..244
         THEN IF /\ second(IF b0 = 240 THEN 144 ELSE 128,
                           IF b0 = 244 THEN 143 ELSE 191)
                 /\ has(2) /\ IsCont(b[i + 2])
                 /\ has(3) /\ IsCont(b[i + 3])
              THEN Utf8Decode(b, i + 4,
                              Append(out, (b0 - 240) * 262144
                                          + (b[i + 1] - 128) * 4096
                                          + (b[i + 2] - 128) * 64 + (b[i + 3] - 128)))
              ELSE bad
         ELSE bad

\* base64.b64decode(value).decode('utf-8') of line 64.
DecodePrivateKey(v) ==
    LET raw == B64Decode(v) IN
    IF raw.ok THEN Utf8Decode(raw.v, 1, <<>>) ELSE raw

\* ------------------------------------------ os.environ.__setitem__ (l.67)

\* Whether the process environment takes the text: putenv refuses an embedded
\* NUL (ValueError) and the surrogateescape encoding refuses a surrogate other
\* than U+DC80..U+DCFF (UnicodeEncodeError).
EnvEncode(s) ==
    IF \E j \in 1..Len(s) : s[j] \in 55296..57343 /\ s[j] \notin 56448..56575
    THEN Raise("UnicodeEncodeError")
    ELSE IF \E j \in 1..Len(s) : s[j] = 0 THEN Raise("ValueError")
    ELSE Ok(s)


\* ------------------------------------------------------------- exceptions

\* An exception in flight: its class, for a SecretLoadError its message and
\* the keys the message lists, the str(e) it embeds, its __cause__ (raise ...
\* from e) with the place the cause was raised, and the place it was raised.
NoException ==
    [type |-> "None", msg |-> "", keys |-> <<>>, detail |-> "None",
     cause |-> "None", cause_at |-> "", at |-> ""]

\* An exception of a library (boto3, json, base64, os) raised at `at`.
LibraryError(type, at) ==
    [type |-> type, msg |-> "", keys |-> <<>>, detail |-> "None",
     cause |-> "None", cause_at |-> "", at |-> at]

\* SecretLoadError(msg) of lines 19-21, raised without a cause.
SecretLoadError(msg, keys, detail, at) ==
    [type |-> "SecretLoadError", msg |-> msg, keys |-> keys, detail |-> detail,
     cause |-> "None", cause_at |-> "", at |-> at]

\* raise SecretLoadError(f"Failed to load secrets: {str(e)}") from e (l.74).
WrapUnexpected(e) ==
    [type |-> "SecretLoadError", msg |-> "Failed to load secrets: ", keys |-> <<>>,
     detail |-> e.type, cause |-> e.type, cause_at |-> e.at, at |-> "l74"]

\* ------------------------------------------------- the secret's documents

\* A key that a document does not hold.
Absent == [t |-> "absent", s |-> <<>>, n |-> 0]

\* The SecretString of a response, by its JSON syntax: the empty text, a text
\* that is no JSON, an object (its members in document order, keys may
\* repeat), an array of strings, a number or null.
EmptyDoc == [kind |-> "empty", members |-> <<>>, items |-> <<>>]
GarbageDoc == [kind |-> "garbage", members |-> <<>>, items |-> <<>>]
ObjectDoc(members) == [kind |-> "object", members |-> members, items |-> <<>>]
ArrayDoc(items) == [kind |-> "array", members |-> <<>>, items |-> items]
NumberDoc == [kind |-> "number", members |-> <<>>, items |-> <<>>]
NullDoc == [kind |-> "null", members |-> <<>>, items |-> <<>>]

\* The values a document may hold under each key.
\*   openai_key:            "sk", ""
\*   github_app_id:         "12", 12
\*   github_webhook_secret: "wh", "w\0" (a NUL inside)
\*   github_private_key:    "Sw==" (base64 of "K"), "Sw" (padding missing),
\*                          "S!w==" (a character outside the alphabet),
\*                          "/w==" (the byte FF, no UTF-8), "", "w6k=" (base64
\*                          of U+00E9), 12, "AA==" (base64 of NUL), "4oKs"
\*                          (base64 of U+20AC)
ValuesOf(k) ==
    CASE k = "openai_key" -> {StrVal(<<115, 107>>), StrVal(<<>>)}
      [] k = "github_app_id" -> {StrVal(<<49, 50>>), IntVal(12)}
      [] k = "github_webhook_secret" -> {StrVal(<<119, 104>>), StrVal(<<119, 0>>)}
      [] k = "github_private_key" ->
           {StrVal(<<83, 119, 61, 61>>), StrVal(<<83, 119>>),
            StrVal(<<83, 33, 119, 61, 61>>), StrVal(<<47, 119, 61, 61>>),
            StrVal(<<>>), StrVal(<<119, 54, 107, 61>>), IntVal(12),
            StrVal(<<65, 65, 61, 61>>), StrVal(<<52, 111, 75, 115>>)}

\* The members of an object that holds f[k] under every key k with a value,
\* in the order of `keys`.
RECURSIVE MembersOf(_, _)
MembersOf(f, keys) ==
    IF keys = <<>> THEN <<>>
    ELSE (IF f[Head(keys)] = Absent THEN <<>> ELSE <<<<Head(keys), f[Head(keys)]>>>>)
         \o MembersOf(f, Tail(keys))

\* A complete, well-formed secret.
GoodMembers ==
    <<<<"openai_key", StrVal(<<115, 107>>)>>, <<"github_app_id", StrVal(<<49, 50>>)>>,
      <<"github_webhook_secret", StrVal(<<119, 104>>)>>,
      <<"github_private_key", StrVal(<<83, 119, 61, 61>>)>>>>

\* Every document the store may answer with.
Documents ==
    {EmptyDoc, GarbageDoc, NumberDoc, NullDoc}
    \cup {ObjectDoc(MembersOf([openai_key |-> a, github_app_id |-> b,
                                github_webhook_secret |-> c, github_private_key |-> d],
                               SECRET_KEYS)) :
            a \in ValuesOf("openai_key") \cup {Absent},
            b \in ValuesOf("github_app_id") \cup {Absent},
            c \in ValuesOf("github_webhook_secret") \cup {Absent},
            d \in ValuesOf("github_private_key") \cup {Absent}}
    \cup {ObjectDoc(<<<<"github_private_key", StrVal(<<83, 119>>)>>>> \o GoodMembers),
          ObjectDoc(GoodMembers \o <<<<"openai_key", StrVal(<<>>)>>>>),
          ObjectDoc(GoodMembers \o <<<<"extra", IntVal(7)>>>>)}
    \cup {ArrayDoc(<<>>), ArrayDoc(SECRET_KEYS),
          ArrayDoc(<<"github_app_id", "github_private_key">>)}

\* ------------------------------------------------------- json.loads (l.47)

\* The Python object of a document: a dict (a later member replaces an earlier
\* one of the same key), a list, an int or None; a text that is no JSON raises.
JsonLoads(doc) ==
    IF doc.kind \in {"garbage", "empty"} THEN Raise("JSONDecodeError")
    ELSE LET m == doc.members
             last(k) == CHOOSE j \in 1..Len(m) :
                          m[j][1] = k /\ \A h \in (j + 1)..Len(m) : m[h][1] # k
         IN Ok([kind |-> IF doc.kind = "object" THEN "dict"
                         ELSE IF doc.kind = "array" THEN "list"
                         ELSE IF doc.kind = "number" THEN "int" ELSE "NoneType",
                d |-> [k \in {m[j][1] : j \in 1..Len(m)} |-> m[last(k)][2]],
                items |-> doc.items])

\* Contains asking a dict for a non-empty value, as `obj.get(key)` would: C15
\* does not hold of it.
ContainsNonEmpty(obj, key) ==
    IF obj.kind = "dict"
    THEN Ok(key \in DOMAIN obj.d /\ obj.d[key] # StrVal(<<>>))
    ELSE IF obj.kind = "list" THEN Ok(\E j \in 1..Len(obj.items) : obj.items[j] = key)
    ELSE Raise("TypeError")

\* `key in obj` (l.50): a dict tests its keys, a list its elements, an int or
\* None is not iterable.
Contains(obj, key) ==
    IF obj.kind = "dict" THEN Ok(key \in DOMAIN obj.d)
    ELSE IF obj.kind = "list" THEN Ok(\E j \in 1..Len(obj.items) : obj.items[j] = key)
    ELSE Raise("TypeError")

\* obj[key] (l.60): only a dict can be indexed by a str.
GetItem(obj, key) ==
    IF obj.kind # "dict" THEN Raise("TypeError")
    ELSE IF key \notin DOMAIN obj.d THEN Raise("KeyError")
    ELSE Ok(obj.d[key])

\* What json.loads leaves in `secrets` before line 47 has run.
Unparsed == [kind |-> "unset", d |-> [k \in {} |-> Absent], items |-> <<>>]


\* ------------------------------------------------------------------ state

VARIABLES
    pc,               \* the statement the module body is at
    environ,          \* os.environ: variable name -> text, for the names set
    secret_name,      \* load_secrets: secret_name (l.34)
    client,           \* load_secrets: the store client and the calls made on it
    response,         \* load_secrets: response (l.43)
    secrets,          \* load_secrets: secrets (l.47)
    missing_secrets,  \* load_secrets: missing_secrets (l.48)
    vi,               \* position of the comprehension of l.48-51 in the keys
    i,                \* position of the loop of l.59 in the mapping
    value,            \* load_secrets: value (l.60, l.64)
    result,           \* what load_secrets returned (l.69)
    exc,              \* the exception in flight, or the one that ended the import
    printed,          \* what line 80 has printed
    app,              \* module: app exists (l.85)
    router,           \* module: the router and the configuration it was built from
    handler,          \* module: handler exists (l.92)
    requests,         \* events passed to serverless (l.94)
    runs,             \* executions of the module body so far
    env0,             \* history: os.environ when this run called load_secrets
    written,          \* history: the names line 67 has set in this run, in order
    trace             \* history: the statements this run has executed, in order

vars ==
    <<pc, environ, secret_name, client, response, secrets, missing_secrets, vi, i,
      value, result, exc, printed, app, router, handler, requests, runs, env0,
      written, trace>>

\* The locals of load_secrets that a statement leaves alone are listed by it;
\* these are the module's objects.
module_objects == <<app, router, handler, requests>>

\* "ps", a secret's name.
SomeName == <<112, 115>>

\* "old", a value a configuration name may hold before the module is imported.
OldValue == <<111, 108, 100>>

\* SECRETS_NAME in the environment: unset, empty or a name.
SecretsNameSettings ==
    {[n \in {} |-> <<>>], [n \in {"SECRETS_NAME"} |-> <<>>],
     [n \in {"SECRETS_NAME"} |-> SomeName]}

\* The configuration names the environment holds before the first import:
\* none, all of them, or the private key alone.
PriorSettings ==
    {[n \in {} |-> <<>>], [n \in ENV_VARS |-> OldValue],
     [n \in {"DYNACONF_GITHUB__PRIVATE_KEY"} |-> OldValue]}

NoClient == [created |-> FALSE, calls |-> 0]
NoResponse == [received |-> FALSE, has |-> FALSE, doc |-> EmptyDoc]
NoRouter == [imported |-> FALSE, config |-> [n \in {} |-> <<>>]]
NoResult == [returned |-> FALSE, map |-> [n \in {} |-> <<>>]]

\* The state of a module body about to run in a process whose environment is e.
Fresh(e) ==
    /\ pc = "m78"
    /\ environ = e
    /\ secret_name = None
    /\ client = NoClient
    /\ response = NoResponse
    /\ secrets = Unparsed
    /\ missing_secrets = <<>>
    /\ vi = 1
    /\ i = 1
    /\ value = Absent
    /\ result = NoResult
    /\ exc = NoException
    /\ printed = <<>>
    /\ app = FALSE
    /\ router = NoRouter
    /\ handler = FALSE
    /\ requests = 0
    /\ env0 = e
    /\ written = <<>>
    /\ trace = <<>>

Init ==
    /\ runs = 1
    /\ \E sn \in SecretsNameSettings, prior \in PriorSettings : Fresh(sn @@ prior)

\* os.environ.get(name) (l.34).
EnvironGet(name) == IF name \in DOMAIN environ THEN Some(environ[name]) ELSE None

\* ---------------------------------------------------------- load_secrets

\* Line 78: the module body calls load_secrets().
CallLoadSecrets ==
    /\ pc = "m78"
    /\ pc' = "l34"
    /\ env0' = environ
    /\ trace' = Append(trace, "l78")
    /\ UNCHANGED <<environ, secret_name, client, response, secrets, missing_secrets,
                   vi, i, value, result, exc, printed, module_objects, runs, written>>

\* Lines 34-36: read SECRETS_NAME; unset or empty raises.
GetSecretName ==
    /\ pc = "l34"
    /\ secret_name' = EnvironGet("SECRETS_NAME")
    /\ IF Truthy(secret_name')
       THEN pc' = "l38" /\ exc' = exc
       ELSE /\ pc' = "l71"
            /\ exc' = SecretLoadError("SECRETS_NAME environment variable is not set",
                                      <<>>, "None", "l36")
    /\ trace' = Append(trace, "l34")
    /\ UNCHANGED <<environ, client, response, secrets, missing_secrets, vi, i, value,
                   result, printed, module_objects, runs, env0, written>>

\* Lines 38-41: the boto3 session and its secretsmanager client; boto3 raises
\* when the process has no region or no usable configuration.
CreateClient ==
    /\ pc = "l38"
    /\ \/ /\ client' = [created |-> TRUE, calls |-> 0]
          /\ pc' = "l43"
          /\ exc' = exc
       \/ /\ client' = client
          /\ pc' = "l71"
          /\ exc' = LibraryError("NoRegionError", "l39")
    /\ trace' = Append(trace, "l38")
    /\ UNCHANGED <<environ, secret_name, response, secrets, missing_secrets, vi, i,
                   value, result, printed, module_objects, runs, env0, written>>

\* Line 43: one get_secret_value call; the store raises (no such secret, no
\* access, no connection) or answers with or without a SecretString.
GetSecretValue ==
    /\ pc = "l43"
    /\ client' = [client EXCEPT !.calls = @ + 1]
    /\ \/ \E e \in {"ClientError", "EndpointConnectionError"} :
            /\ response' = response
            /\ pc' = "l71"
            /\ exc' = LibraryError(e, "l43")
       \/ /\ response' = [received |-> TRUE, has |-> FALSE, doc |-> EmptyDoc]
          /\ pc' = "l44"
          /\ exc' = exc
       \/ \E doc \in Documents :
            /\ response' = [received |-> TRUE, has |-> TRUE, doc |-> doc]
            /\ pc' = "l44"
            /\ exc' = exc
    /\ trace' = Append(trace, "l43")
    /\ UNCHANGED <<environ, secret_name, secrets, missing_secrets, vi, i, value,
                   result, printed, module_objects, runs, env0, written>>

\* NoSecretString testing for None alone, so that an empty SecretString goes
\* on to the parser: C11 does not hold of it.
NoSecretStringAtAll(r) == ~r.has

\* `not response.get('SecretString')` (l.44): no SecretString, or an empty one.
NoSecretString(r) == ~r.has \/ r.doc.kind = "empty"

\* Lines 44-45: a response without a secret string raises.
CheckSecretString ==
    /\ pc = "l44"
    /\ IF NoSecretString(response)
       THEN /\ pc' = "l71"
            /\ exc' = SecretLoadError("No secret string found in secret: ", <<>>,
                                      "None", "l45")
       ELSE pc' = "l47" /\ exc' = exc
    /\ trace' = Append(trace, "l44")
    /\ UNCHANGED <<environ, secret_name, client, response, secrets, missing_secrets,
                   vi, i, value, result, printed, module_objects, runs, env0, written>>

\* Line 47: secrets = json.loads(response['SecretString']).
ParseSecretString ==
    /\ pc = "l47"
    /\ LET r == JsonLoads(response.doc) IN
       IF r.ok
       THEN secrets' = r.v /\ pc' = "l48" /\ exc' = exc
       ELSE secrets' = secrets /\ pc' = "l71" /\ exc' = LibraryError(r.err, "l47")
    /\ trace' = Append(trace, "l47")
    /\ UNCHANGED <<environ, secret_name, client, response, missing_secrets, vi, i,
                   value, result, printed, module_objects, runs, env0, written>>

\* Collect keeping the first missing key only: C3 does not hold of it.
CollectFirstOnly(missing, key, absent) ==
    IF absent /\ missing = <<>> THEN Append(missing, key) ELSE missing

\* The comprehension's list after a key was tested (l.48-51).
Collect(missing, key, absent) == IF absent THEN Append(missing, key) ELSE missing

\* CheckKey publishing a key's value as soon as the key is found, validation
\* and publication in one loop: C13 does not hold of it.
CheckKeyPublishing ==
    /\ pc = "l48"
    /\ vi <= Len(SECRET_KEYS)
    /\ LET r == Contains(secrets, SECRET_KEYS[vi]) IN
       IF r.ok
       THEN /\ missing_secrets' = Collect(missing_secrets, SECRET_KEYS[vi], ~r.v)
            /\ vi' = vi + 1
            /\ pc' = IF vi = Len(SECRET_KEYS) THEN "l53" ELSE "l48"
            /\ exc' = exc
            /\ environ' = IF r.v /\ secrets.kind = "dict"
                          THEN (SECRET_ENV_MAPPING[SECRET_KEYS[vi]]
                                  :> PyStr(secrets.d[SECRET_KEYS[vi]])) @@ environ
                          ELSE environ
       ELSE /\ missing_secrets' = missing_secrets
            /\ vi' = vi
            /\ pc' = "l71"
            /\ exc' = LibraryError(r.err, "l50")
            /\ environ' = environ
    /\ trace' = Append(trace, "l48")
    /\ UNCHANGED <<secret_name, client, response, secrets, i, value, result,
                   printed, module_objects, runs, env0, written>>

\* Lines 48-51: one turn of the comprehension: the next key of the mapping is
\* tested against secrets and kept when it is not there.
CheckKey ==
    /\ pc = "l48"
    /\ vi <= Len(SECRET_KEYS)
    /\ LET r == Contains(secrets, SECRET_KEYS[vi]) IN
       IF r.ok
       THEN /\ missing_secrets' = Collect(missing_secrets, SECRET_KEYS[vi], ~r.v)
            /\ vi' = vi + 1
            /\ pc' = IF vi = Len(SECRET_KEYS) THEN "l53" ELSE "l48"
            /\ exc' = exc
       ELSE /\ missing_secrets' = missing_secrets
            /\ vi' = vi
            /\ pc' = "l71"
            /\ exc' = LibraryError(r.err, "l50")
    /\ trace' = Append(trace, "l48")
    /\ UNCHANGED <<environ, secret_name, client, response, secrets, i, value, result,
                   printed, module_objects, runs, env0, written>>

\* CheckMissing raising only when every key is missing: C2 does not hold of it.
CheckMissingOnlyAll ==
    /\ pc = "l53"
    /\ IF Len(missing_secrets) = Len(SECRET_KEYS)
       THEN /\ pc' = "l71"
            /\ exc' = SecretLoadError("Required secrets are missing: ",
                                      missing_secrets, "None", "l54")
       ELSE pc' = "l59" /\ exc' = exc
    /\ trace' = Append(trace, "l53")
    /\ UNCHANGED <<environ, secret_name, client, response, secrets, missing_secrets,
                   vi, i, value, result, printed, module_objects, runs, env0, written>>

\* Lines 53-56: any missing key raises, with all of them in the message.
CheckMissing ==
    /\ pc = "l53"
    /\ IF missing_secrets # <<>>
       THEN /\ pc' = "l71"
            /\ exc' = SecretLoadError("Required secrets are missing: ",
                                      missing_secrets, "None", "l54")
       ELSE pc' = "l59" /\ exc' = exc
    /\ trace' = Append(trace, "l53")
    /\ UNCHANGED <<environ, secret_name, client, response, secrets, missing_secrets,
                   vi, i, value, result, printed, module_objects, runs, env0, written>>


\* Lines 59-60: the loop takes the next pair of the mapping and reads the
\* key's value, or ends.
NextPair ==
    /\ pc = "l59"
    /\ IF i > Len(SECRET_KEYS)
       THEN value' = value /\ pc' = "l69" /\ exc' = exc
       ELSE LET r == GetItem(secrets, SECRET_KEYS[i]) IN
            IF r.ok
            THEN value' = r.v /\ pc' = "l62" /\ exc' = exc
            ELSE value' = value /\ pc' = "l71" /\ exc' = LibraryError(r.err, "l60")
    /\ trace' = Append(trace, "l59")
    /\ UNCHANGED <<environ, secret_name, client, response, secrets, missing_secrets,
                   vi, i, result, printed, module_objects, runs, env0, written>>

\* NeedsDecode with the key's name misspelt, so that nothing is decoded: C7
\* does not hold of it.
NeedsDecodeNothing(secret_key) == secret_key = "github-private-key"

\* Line 62: the one key whose value is base64.
NeedsDecode(secret_key) == secret_key = "github_private_key"

\* Lines 62-66: the private key is decoded; whatever the decoding raises is
\* raised again as a SecretLoadError (without `from`).
DecodeValue ==
    /\ pc = "l62"
    /\ IF NeedsDecode(SECRET_KEYS[i])
       THEN LET r == DecodePrivateKey(value) IN
            IF r.ok
            THEN value' = StrVal(r.v) /\ pc' = "l67" /\ exc' = exc
            ELSE /\ value' = value
                 /\ pc' = "l71"
                 /\ exc' = SecretLoadError("Failed to decode base64 private key: ",
                                           <<>>, r.err, "l66")
       ELSE value' = value /\ pc' = "l67" /\ exc' = exc
    /\ trace' = Append(trace, IF NeedsDecode(SECRET_KEYS[i]) THEN "l64" ELSE "l62")
    /\ UNCHANGED <<environ, secret_name, client, response, secrets, missing_secrets,
                   vi, i, result, printed, module_objects, runs, env0, written>>

\* SetEnviron keeping a value the name already holds, as
\* os.environ.setdefault would: C14 does not hold of it.
SetEnvironKeeping ==
    /\ pc = "l67"
    /\ LET env_var == SECRET_ENV_MAPPING[SECRET_KEYS[i]]
           r == EnvEncode(PyStr(value))
       IN
       IF r.ok
       THEN /\ environ' = environ @@ (env_var :> r.v)
            /\ written' = Append(written, env_var)
            /\ i' = i + 1
            /\ pc' = "l59"
            /\ exc' = exc
       ELSE /\ environ' = environ
            /\ written' = written
            /\ i' = i
            /\ pc' = "l71"
            /\ exc' = LibraryError(r.err, "l67")
    /\ trace' = Append(trace, "l67")
    /\ UNCHANGED <<secret_name, client, response, secrets, missing_secrets, vi, value,
                   result, printed, module_objects, runs, env0>>

\* Line 67: os.environ[env_var] = str(value), then the loop goes on.
SetEnviron ==
    /\ pc = "l67"
    /\ LET env_var == SECRET_ENV_MAPPING[SECRET_KEYS[i]]
           r == EnvEncode(PyStr(value))
       IN
       IF r.ok
       THEN /\ environ' = (env_var :> r.v) @@ environ
            /\ written' = Append(written, env_var)
            /\ i' = i + 1
            /\ pc' = "l59"
            /\ exc' = exc
       ELSE /\ environ' = environ
            /\ written' = written
            /\ i' = i
            /\ pc' = "l71"
            /\ exc' = LibraryError(r.err, "l67")
    /\ trace' = Append(trace, "l67")
    /\ UNCHANGED <<secret_name, client, response, secrets, missing_secrets, vi, value,
                   result, printed, module_objects, runs, env0>>

\* ReturnMap leaving out the names whose value is empty (`if os.environ[...]`):
\* C5 does not hold of it.
ReturnMapNonEmpty == [env_var \in {n \in ENV_VARS : environ[n] # <<>>} |-> environ[env_var]]

\* Line 69: the returned dict reads every mapped name back from os.environ.
ReturnMap == [env_var \in ENV_VARS |-> environ[env_var]]

\* Line 69: load_secrets returns; the module body goes on to line 84.
Return ==
    /\ pc = "l69"
    /\ result' = [returned |-> TRUE, map |-> ReturnMap]
    /\ pc' = "m84"
    /\ trace' = Append(trace, "l69")
    /\ UNCHANGED <<environ, secret_name, client, response, secrets, missing_secrets,
                   vi, i, value, exc, printed, module_objects, runs, env0, written>>

\* ExceptSecretLoadError wrapping like the catch-all (the two except clauses in
\* the other order): C9 does not hold of it.
ExceptSecretLoadErrorWrapped ==
    /\ pc = "l71"
    /\ exc.type = "SecretLoadError"
    /\ exc' = WrapUnexpected(exc)
    /\ pc' = "m79"
    /\ trace' = Append(trace, "l74")
    /\ UNCHANGED <<environ, secret_name, client, response, secrets, missing_secrets,
                   vi, i, value, result, printed, module_objects, runs, env0, written>>

\* Lines 71-72: a SecretLoadError leaves load_secrets as it was raised.
ExceptSecretLoadError ==
    /\ pc = "l71"
    /\ exc.type = "SecretLoadError"
    /\ pc' = "m79"
    /\ trace' = Append(trace, "l72")
    /\ UNCHANGED <<environ, secret_name, client, response, secrets, missing_secrets,
                   vi, i, value, result, exc, printed, module_objects, runs, env0,
                   written>>

\* ExceptException calling the store a second time after its first failure
\* before giving up: C8 does not hold of it.
ExceptExceptionRetrying ==
    /\ pc = "l71"
    /\ exc.type # "SecretLoadError"
    /\ IF exc.at = "l43" /\ client.calls < 2
       THEN exc' = NoException /\ pc' = "l43"
       ELSE exc' = WrapUnexpected(exc) /\ pc' = "m79"
    /\ trace' = Append(trace, "l74")
    /\ UNCHANGED <<environ, secret_name, client, response, secrets, missing_secrets,
                   vi, i, value, result, printed, module_objects, runs, env0, written>>

\* Lines 73-74: any other Exception leaves as a SecretLoadError caused by it.
ExceptException ==
    /\ pc = "l71"
    /\ exc.type # "SecretLoadError"
    /\ exc' = WrapUnexpected(exc)
    /\ pc' = "m79"
    /\ trace' = Append(trace, "l74")
    /\ UNCHANGED <<environ, secret_name, client, response, secrets, missing_secrets,
                   vi, i, value, result, printed, module_objects, runs, env0, written>>

\* ------------------------------------------------------- the module body

\* ModuleExcept without the `raise` of line 81, so that the module body goes
\* on after the print: C6 does not hold of it.
ModuleExceptSwallowing ==
    /\ pc = "m79"
    /\ printed' = Append(printed, exc)
    /\ pc' = "m84"
    /\ trace' = Append(trace, "l80")
    /\ UNCHANGED <<environ, secret_name, client, response, secrets, missing_secrets,
                   vi, i, value, result, exc, module_objects, runs, env0, written>>

\* Lines 79-81: a SecretLoadError is printed and raised again, which ends the
\* import; anything else would pass through unprinted.
ModuleExcept ==
    /\ pc = "m79"
    /\ printed' = IF exc.type = "SecretLoadError" THEN Append(printed, exc)
                  ELSE printed
    /\ pc' = "aborted"
    /\ trace' = Append(trace, "l81")
    /\ UNCHANGED <<environ, secret_name, client, response, secrets, missing_secrets,
                   vi, i, value, result, exc, module_objects, runs, env0, written>>

\* Lines 84-85: the FastAPI application.
CreateApp ==
    /\ pc = "m84"
    /\ app' = TRUE
    /\ pc' = "m88"
    /\ trace' = Append(trace, "l85")
    /\ UNCHANGED <<environ, secret_name, client, response, secrets, missing_secrets,
                   vi, i, value, result, exc, printed, router, handler, requests,
                   runs, env0, written>>

\* Lines 88-89: github_app is imported, which reads the configuration names
\* from the environment, and its router is included in the application.
ImportRouter ==
    /\ pc = "m88"
    /\ router' = [imported |-> TRUE,
                  config |-> [n \in ENV_VARS \cap DOMAIN environ |-> environ[n]]]
    /\ pc' = "m92"
    /\ trace' = Append(trace, "l88")
    /\ UNCHANGED <<environ, secret_name, client, response, secrets, missing_secrets,
                   vi, i, value, result, exc, printed, app, handler, requests, runs,
                   env0, written>>

\* Line 92: the Mangum handler; the import is complete.
CreateHandler ==
    /\ pc = "m92"
    /\ handler' = TRUE
    /\ pc' = "ready"
    /\ trace' = Append(trace, "l92")
    /\ UNCHANGED <<environ, secret_name, client, response, secrets, missing_secrets,
                   vi, i, value, result, exc, printed, app, router, requests, runs,
                   env0, written>>

\* Lines 94-95: serverless(event, context) passes an event to the handler.
Serverless ==
    /\ pc = "ready"
    /\ handler
    /\ requests < MaxRequests
    /\ requests' = requests + 1
    /\ UNCHANGED <<pc, environ, secret_name, client, response, secrets,
                   missing_secrets, vi, i, value, result, exc, printed, app, router,
                   handler, runs, env0, written, trace>>

\* The module is imported anew in the same process: after line 81 ended an
\* import (no module is left behind), or when the module is loaded afresh. The
\* environment stays as the earlier runs left it, but for SECRETS_NAME, which
\* whoever starts the import may have set, emptied or removed.
Reimport ==
    /\ pc \in {"aborted", "ready"}
    /\ runs < MaxRuns
    /\ runs' = runs + 1
    /\ \E sn \in SecretsNameSettings :
         LET e == sn @@ [n \in DOMAIN environ \ {"SECRETS_NAME"} |-> environ[n]] IN
         /\ pc' = "m78"
         /\ environ' = e
         /\ secret_name' = None
         /\ client' = NoClient
         /\ response' = NoResponse
         /\ secrets' = Unparsed
         /\ missing_secrets' = <<>>
         /\ vi' = 1
         /\ i' = 1
         /\ value' = Absent
         /\ result' = NoResult
         /\ exc' = NoException
         /\ printed' = <<>>
         /\ app' = FALSE
         /\ router' = NoRouter
         /\ handler' = FALSE
         /\ requests' = 0
         /\ env0' = e
         /\ written' = <<>>
         /\ trace' = <<>>

Next ==
    \/ CallLoadSecrets
    \/ GetSecretName
    \/ CreateClient
    \/ GetSecretValue
    \/ CheckSecretString
    \/ ParseSecretString
    \/ CheckKey
    \/ CheckMissing
    \/ NextPair
    \/ DecodeValue
    \/ SetEnviron
    \/ Return
    \/ ExceptSecretLoadError
    \/ ExceptException
    \/ ModuleExcept
    \/ CreateApp
    \/ ImportRouter
    \/ CreateHandler
    \/ Serverless
    \/ Reimport

Spec == Init /\ [][Next]_vars


\* ------------------------------------------------------------- properties

\* The run has ended with the import aborted (the Failed state).
Failed == pc = "aborted"

\* load_secrets has returned in this run (the Published state).
Published == result.returned

\* The run is past load_secrets' try block, on its way out with an exception.
Failing == pc \in {"l71", "m79", "aborted"}

\* The parsed payload is a key-value bundle.
IsBundle == secrets.kind = "dict"

\* The required keys a bundle lacks, in mapping order.
MissingFrom(bundle) ==
    LET lacks(k) == k \notin DOMAIN bundle IN SelectSeq(SECRET_KEYS, lacks)

\* The configuration names of an environment, with their values.
ConfigOf(e) == [n \in ENV_VARS \cap DOMAIN e |-> e[n]]

DecodeFailedMsg == "Failed to decode base64 private key: "
MissingKeysMsg == "Required secrets are missing: "
NoIdentifierMsg == "SECRETS_NAME environment variable is not set"
NoSecretStringMsg == "No secret string found in secret: "
UnexpectedMsg == "Failed to load secrets: "

\* C1 (as claimed): when every required key is there and the private key fails
\* to decode, the run has written none of the configuration names: the
\* environment holds for every configuration name what it held before the run.
C1_AtomicPublication ==
    (IsBundle /\ MissingFrom(secrets.d) = <<>> /\ exc.msg = DecodeFailedMsg)
        => written = <<>> /\ ConfigOf(environ) = ConfigOf(env0)

\* C2: a configuration name is first written only after the validator has
\* tested every key of the mapping and found each in the parsed payload; a
\* bundle that lacks a required key never gets past the validator: nothing is
\* written and load_secrets does not return.
C2_CompletenessGate ==
    /\ written # <<>> =>
         /\ vi = Len(SECRET_KEYS) + 1
         /\ missing_secrets = <<>>
         /\ \A j \in 1..Len(SECRET_KEYS) :
              Contains(secrets, SECRET_KEYS[j]).ok /\ Contains(secrets, SECRET_KEYS[j]).v
    /\ (IsBundle /\ MissingFrom(secrets.d) # <<>>) =>
         /\ written = <<>>
         /\ ~Published
         /\ pc \in {"l48", "l53", "l71", "m79", "aborted"}

\* C2's case: the first name has just been written.
C2_Witness == Len(written) = 1 /\ pc = "l59"

\* C3: a bundle that lacks the non-empty set S of required keys fails with the
\* missing-keys error, whose list holds exactly the keys of S, each once, in
\* mapping order.
C3_MissingKeyReporting ==
    (IsBundle /\ MissingFrom(secrets.d) # <<>> /\ pc \notin {"l48", "l53"}) =>
        /\ Failing
        /\ exc.type = "SecretLoadError"
        /\ exc.msg = MissingKeysMsg
        /\ exc.keys = MissingFrom(secrets.d)
        /\ Failed => printed = <<exc>>

\* C3's case: a bundle lacking two keys, but not the first, has failed.
C3_Witness ==
    /\ Failed
    /\ IsBundle
    /\ Len(MissingFrom(secrets.d)) = 2
    /\ "openai_key" \in DOMAIN secrets.d

\* SECRETS_NAME was unset or empty when the run called load_secrets.
NoIdentifier == "SECRETS_NAME" \notin DOMAIN env0 \/ env0["SECRETS_NAME"] = <<>>

\* C4: with SECRETS_NAME unset or empty, load_secrets fails with the
\* missing-identifier error, the store client is never created nor called and
\* no configuration name is written.
C4_FailFastOnMissingIdentifier ==
    (NoIdentifier /\ pc \notin {"m78", "l34"}) =>
        /\ Failing
        /\ exc = SecretLoadError(NoIdentifierMsg, <<>>, "None", "l36")
        /\ ~client.created
        /\ client.calls = 0
        /\ ~response.received
        /\ written = <<>>
        /\ environ = env0

\* C4's case: a run with SECRETS_NAME set to the empty text has failed.
C4_Witness == Failed /\ "SECRETS_NAME" \in DOMAIN env0 /\ NoIdentifier


\* The bundle holds every required key.
Complete == IsBundle /\ MissingFrom(secrets.d) = <<>>

\* load_secrets is still between the validator and its return.
Publishing == pc \in {"l48", "l53", "l59", "l62", "l67", "l69"}

\* C5 (as claimed): every bundle that holds every required key is published:
\* load_secrets returns a mapping of exactly four entries, one for each of the
\* four distinct configuration names.
C5_CompletenessOfSuccess ==
    (Complete /\ ~Publishing) =>
        /\ Published
        /\ DOMAIN result.map = ENV_VARS
        /\ Cardinality(DOMAIN result.map) = Len(SECRET_KEYS)

\* The text line 67 writes for key k of a bundle, or the exception that
\* lines 64 and 67 raise instead.
PublishedText(bundle, k) ==
    IF k = "github_private_key"
    THEN LET r == DecodePrivateKey(bundle[k]) IN IF r.ok THEN EnvEncode(r.v) ELSE r
    ELSE EnvEncode(PyStr(bundle[k]))

\* Every value of the bundle can be published.
Publishable(bundle) == \A k \in DOMAIN SECRET_ENV_MAPPING : PublishedText(bundle, k).ok

\* C5 (amended): a bundle that holds every required key is published exactly
\* when its private key decodes and the environment takes every value; then
\* load_secrets returns a mapping of exactly four entries, one for each of the
\* four distinct configuration names. Otherwise it fails.
C5_CompletenessOfSuccessAmended ==
    /\ (Complete /\ Publishable(secrets.d)) =>
         /\ ~Failing
         /\ ~Publishing =>
              /\ Published
              /\ DOMAIN result.map = ENV_VARS
              /\ Cardinality(DOMAIN result.map) = Len(SECRET_KEYS)
    /\ (Complete /\ ~Publishable(secrets.d)) => ~Published /\ (~Publishing => Failing)

\* C5's case: a complete bundle with an empty value has been published.
C5_Witness ==
    /\ pc = "ready"
    /\ Published
    /\ secrets.d["openai_key"] = StrVal(<<>>)

\* The module's objects that take requests exist, or a request was taken.
Serving == app \/ router.imported \/ handler \/ requests > 0

\* C6: the application, the router and the handler exist only after
\* load_secrets has returned with all four configuration names written by this
\* run, and the router was built from exactly those; a run that fails creates
\* none of them and can take no request.
C6_StartupBarrier ==
    /\ Serving =>
         /\ Published
         /\ exc = NoException
         /\ {written[j] : j \in 1..Len(written)} = ENV_VARS
         /\ ENV_VARS \subseteq DOMAIN environ
         /\ pc \in {"m88", "m92", "ready"}
    /\ router.imported => router.config = result.map /\ DOMAIN router.config = ENV_VARS
    /\ Failing => ~Serving
    /\ Failed => ~ENABLED Serverless /\ ~ENABLED CreateApp /\ ~ENABLED CreateHandler

\* C6's case: the handler has taken a request.
C6_Witness == handler /\ requests > 0

\* The name the private key is published under.
PRIVATE_KEY_VAR == SECRET_ENV_MAPPING["github_private_key"]

\* C7 (as claimed): after a successful bootstrap every published value equals
\* the bundle's value, but for the private key, whose published value is the
\* decoded text of the bundle's value and not the still-encoded value.
C7_DecodingSelectivity ==
    Published =>
        \A k \in DOMAIN SECRET_ENV_MAPPING :
            LET published == StrVal(environ[SECRET_ENV_MAPPING[k]]) IN
            IF k = "github_private_key"
            THEN /\ DecodePrivateKey(secrets.d[k]).ok
                 /\ published.s = DecodePrivateKey(secrets.d[k]).v
                 /\ published # secrets.d[k]
            ELSE published = secrets.d[k]

\* C7 (amended): after a successful bootstrap every published value is str()
\* of the bundle's value (the value itself when it is a string, its decimal
\* text when it is a number), but for the private key, whose published value
\* is the base64-decoded UTF-8 text of the bundle's value, and this is not the
\* still-encoded value unless that value is the empty text; the private key is
\* the only key ever decoded, and line 67 never writes it undecoded.
C7_DecodingSelectivityAmended ==
    /\ Published =>
         \A k \in DOMAIN SECRET_ENV_MAPPING :
             LET published == environ[SECRET_ENV_MAPPING[k]] IN
             IF k = "github_private_key"
             THEN /\ DecodePrivateKey(secrets.d[k]).ok
                  /\ published = DecodePrivateKey(secrets.d[k]).v
                  /\ secrets.d[k].s # <<>> => published # secrets.d[k].s
             ELSE /\ published = PyStr(secrets.d[k])
                  /\ secrets.d[k].t = "str" => published = secrets.d[k].s
    /\ pc = "l67" =>
         value = IF SECRET_KEYS[i] = "github_private_key"
                 THEN StrVal(DecodePrivateKey(secrets.d[SECRET_KEYS[i]]).v)
                 ELSE secrets.d[SECRET_KEYS[i]]
    /\ \A j \in 1..Len(trace) :
         trace[j] = "l64" =>
             Cardinality({h \in 1..j : trace[h] = "l59"}) = Len(SECRET_KEYS)

\* C7's case: a private key holding base64 of U+00E9 has been published.
C7_Witness == Published /\ environ[PRIVATE_KEY_VAR] = <<233>>

\* How often a statement occurs in the run's trace.
Count(label) == Cardinality({j \in 1..Len(trace) : trace[j] = label})

\* The statements of `labels` were executed in one go, nothing else between.
OneBlock(labels) ==
    \A a, b \in 1..Len(trace) :
        (a < b /\ trace[a] \in labels /\ trace[b] \in labels) =>
            \A c \in a..b : trace[c] \in labels

StoreErrors == {"ClientError", "EndpointConnectionError"}

\* C8: in every run the store is called at most once, no stage (fetch, parse,
\* validate, decode, publish) is entered twice, the run stops nowhere but in
\* Published or in Failed and never in both, and a failure of the store goes
\* straight to Failed.
C8_SingleAttempt ==
    /\ client.calls <= 1
    /\ client.calls = Count("l43")
    /\ \A label \in {"l78", "l34", "l38", "l43", "l44", "l47", "l53", "l64", "l69"} :
         Count(label) <= 1
    /\ Count("l48") <= Len(SECRET_KEYS)
    /\ OneBlock({"l48"})
    /\ Count("l67") <= Len(SECRET_KEYS)
    /\ OneBlock({"l59", "l62", "l64", "l67"})
    /\ \A a, b \in 1..Len(written) : written[a] = written[b] => a = b
    /\ ~(Published /\ Failing)
    /\ Published => exc = NoException
    /\ ~ENABLED Next => Failed \/ (Published /\ pc = "ready")
    /\ (exc.type \in StoreErrors \/ exc.cause \in StoreErrors) =>
         /\ client.calls = 1
         /\ ~response.received
         /\ Failing
         /\ \E j \in 1..Len(trace) :
              /\ trace[j] = "l43"
              /\ SubSeq(trace, j + 1, Len(trace)) \in {<<>>, <<"l74">>, <<"l74", "l81">>}

\* C8's case: the store has failed and the run has ended.
C8_Witness == Failed /\ exc.cause = "ClientError" /\ client.calls = 1


\* The exceptions the libraries raise inside load_secrets.
LibraryErrors ==
    {"NoRegionError", "ClientError", "EndpointConnectionError", "JSONDecodeError",
     "TypeError", "KeyError", "ValueError", "UnicodeEncodeError"}

\* Where the failure of the run began: where the exception in flight, or the
\* one the catch-all wrapped, was raised.
Origin == IF exc.at = "l74" THEN exc.cause_at ELSE exc.at

\* The statement, as the trace names it, that raises at a place.
StatementOf(at) ==
    CASE at = "l36" -> "l34"
      [] at = "l39" -> "l38"
      [] at = "l43" -> "l43"
      [] at = "l45" -> "l44"
      [] at = "l47" -> "l47"
      [] at = "l50" -> "l48"
      [] at = "l54" -> "l53"
      [] at = "l60" -> "l59"
      [] at = "l66" -> "l64"
      [] at = "l67" -> "l67"
      [] OTHER -> "none"

\* The trace without the except clauses at its end.
RECURSIVE Stages(_)
Stages(t) ==
    IF t # <<>> /\ t[Len(t)] \in {"l72", "l74", "l81"}
    THEN Stages(SubSeq(t, 1, Len(t) - 1))
    ELSE t

\* The message load_secrets gives each error it raises itself, by its place.
OwnErrors ==
    {<<"l36", NoIdentifierMsg>>, <<"l45", NoSecretStringMsg>>,
     <<"l54", MissingKeysMsg>>, <<"l66", DecodeFailedMsg>>}

\* C9: a failure ends the run at the statement that failed, no later stage
\* runs, and the caller gets a SecretLoadError: the one load_secrets raised
\* itself (missing identifier, empty payload, missing keys, decode failure),
\* as raised and without a cause, or else the catch-all's, with the library's
\* exception as its cause; the module prints it once and raises it again.
C9_ErrorPropagation ==
    /\ Failing <=> exc.type # "None"
    /\ Failing =>
         /\ Stages(trace) # <<>>
         /\ Stages(trace)[Len(Stages(trace))] = StatementOf(Origin)
         /\ ~Published
    /\ pc = "l71" => exc.at # "l74" /\ exc.cause = "None"
    /\ pc \in {"m79", "aborted"} =>
         /\ exc.type = "SecretLoadError"
         /\ \/ /\ <<exc.at, exc.msg>> \in OwnErrors
               /\ exc.cause = "None"
               /\ trace[Len(Stages(trace)) + 1] = "l72"
            \/ /\ exc.at = "l74"
               /\ exc.msg = UnexpectedMsg
               /\ exc.cause \in LibraryErrors
               /\ exc.detail = exc.cause
               /\ exc.cause_at \in {"l39", "l43", "l47", "l50", "l60", "l67"}
               /\ trace[Len(Stages(trace)) + 1] = "l74"
    /\ printed = IF Failed THEN <<exc>> ELSE <<>>
    /\ Failed => ~Serving /\ trace[Len(trace)] = "l81"

\* C9's case: a payload that is no JSON has ended the run with the catch-all's
\* error.
C9_Witness == Failed /\ exc.at = "l74" /\ exc.cause = "JSONDecodeError"

\* The store answered with a non-empty payload that is not a key-value object.
Malformed == response.has /\ response.doc.kind \notin {"empty", "object"}

\* C10 (as claimed): a non-empty payload that is no key-value object fails
\* at the parse of line 47 with the error of a malformed payload (the
\* catch-all's, caused by the parser), before the validator tests any key, and
\* no configuration name is written.
C10_MalformedPayload ==
    (Malformed /\ pc \notin {"l44", "l47"}) =>
        /\ Failing
        /\ Origin = "l47"
        /\ pc = "l71" => exc.type = "JSONDecodeError"
        /\ pc \in {"m79", "aborted"} =>
             exc.msg = UnexpectedMsg /\ exc.cause = "JSONDecodeError"
        /\ Count("l48") = 0
        /\ vi = 1
        /\ written = <<>>


\* The store call returned, with no SecretString or with an empty one.
EmptyPayload == response.received /\ (~response.has \/ response.doc.kind = "empty")

\* C11: when the store answers without content (no SecretString, or an empty
\* one), load_secrets fails with the empty-payload error of line 45 before the
\* parser of line 47 runs, and no configuration name is written.
C11_EmptyPayload ==
    (EmptyPayload /\ pc # "l44") =>
        /\ Failing
        /\ exc = SecretLoadError(NoSecretStringMsg, <<>>, "None", "l45")
        /\ client.calls = 1
        /\ Count("l47") = 0
        /\ secrets = Unparsed
        /\ written = <<>>
        /\ ConfigOf(environ) = ConfigOf(env0)

\* C11's case: an empty SecretString has ended the run.
C11_Witness == Failed /\ response.has /\ response.doc.kind = "empty"


\* The UTF-8 bytes of a text without surrogates.
RECURSIVE Utf8Encode(_)
Utf8Encode(t) ==
    IF t = <<>> THEN <<>>
    ELSE LET c == Head(t) IN
         (IF c < 128 THEN <<c>>
          ELSE IF c < 2048 THEN <<192 + (c \div 64), 128 + (c % 64)>>
          ELSE IF c < 65536
          THEN <<224 + (c \div 4096), 128 + ((c \div 64) % 64), 128 + (c % 64)>>
          ELSE <<240 + (c \div 262144), 128 + ((c \div 4096) % 64),
                 128 + ((c \div 64) % 64), 128 + (c % 64)>>)
         \o Utf8Encode(Tail(t))

\* The character of the base64 alphabet for a 6-bit value.
B64Char(v) ==
    IF v < 26 THEN 65 + v
    ELSE IF v < 52 THEN 71 + v
    ELSE IF v < 62 THEN v - 4
    ELSE IF v = 62 THEN 43 ELSE 47

\* Standard base64 of a sequence of bytes, padded with "=".
RECURSIVE B64Encode(_)
B64Encode(b) ==
    IF b = <<>> THEN <<>>
    ELSE IF Len(b) = 1
    THEN <<B64Char(b[1] \div 4), B64Char((b[1] % 4) * 16), 61, 61>>
    ELSE IF Len(b) = 2
    THEN <<B64Char(b[1] \div 4), B64Char(((b[1] % 4) * 16) + (b[2] \div 16)),
           B64Char((b[2] % 16) * 4), 61>>
    ELSE <<B64Char(b[1] \div 4), B64Char(((b[1] % 4) * 16) + (b[2] \div 16)),
           B64Char(((b[2] % 16) * 4) + (b[3] \div 64)), B64Char(b[3] % 64)>>
         \o B64Encode(SubSeq(b, 4, Len(b)))

\* The value the store holds for a private key whose text is P.
Encoded(P) == StrVal(B64Encode(Utf8Encode(P)))

\* The plaintexts of the round trip: "", "K", U+00E9, U+20AC and NUL.
Plaintexts == {<<>>, <<75>>, <<233>>, <<8364>>, <<0>>}

\* The bundle is complete, its private key is the encoding of P and line 67
\* takes the values of the other keys.
Carries(P) ==
    /\ Complete
    /\ secrets.d["github_private_key"] = Encoded(P)
    /\ \A k \in DOMAIN SECRET_ENV_MAPPING \ {"github_private_key"} :
         PublishedText(secrets.d, k).ok

\* C12 (as claimed): for any plaintext P, a bundle whose private key is
\* base64 of P, with the other keys present, is published with exactly P under
\* the private key's configuration name.
C12_DecodeRoundTrip ==
    \A P \in Plaintexts :
        (Carries(P) /\ ~Publishing) => Published /\ environ[PRIVATE_KEY_VAR] = P

\* C12 (amended): for any plaintext P, line 64 applied to base64 of P gives P
\* back; a bundle whose private key is base64 of P, with the other keys
\* present, is published with exactly P under the private key's configuration
\* name when P holds no NUL character, and fails at line 67 with that name
\* left as it was when it does.
C12_DecodeRoundTripAmended ==
    \A P \in Plaintexts :
        /\ DecodePrivateKey(Encoded(P)) = Ok(P)
        /\ (Carries(P) /\ ~Publishing) =>
             IF EnvEncode(P).ok
             THEN Published /\ environ[PRIVATE_KEY_VAR] = P /\ result.map[PRIVATE_KEY_VAR] = P
             ELSE /\ Failing
                  /\ Origin = "l67"
                  /\ Len(written) = Len(SECRET_KEYS) - 1
                  /\ \A j \in 1..Len(written) : written[j] # PRIVATE_KEY_VAR
                  /\ PRIVATE_KEY_VAR \in DOMAIN environ <=> PRIVATE_KEY_VAR \in DOMAIN env0
                  /\ PRIVATE_KEY_VAR \in DOMAIN environ =>
                       environ[PRIVATE_KEY_VAR] = env0[PRIVATE_KEY_VAR]

\* C12's case: base64 of U+20AC has been published as U+20AC.
C12_Witness ==
    /\ Published
    /\ secrets.d["github_private_key"] = Encoded(<<8364>>)
    /\ environ[PRIVATE_KEY_VAR] = <<8364>>


\* The places a run fails at before the loop of line 59 starts: no identifier,
\* no client, the store's failure, no secret string, no JSON, the validator's
\* failure, missing keys.
EarlyOrigins == {"l36", "l39", "l43", "l45", "l47", "l50", "l54"}

\* C13: a run that fails before the loop of line 59 starts leaves os.environ
\* exactly as it was when load_secrets was called: every configuration name
\* keeps its value or its absence, whoever set it, an earlier run included.
C13_FrameOnEarlyFailure ==
    /\ (Failing /\ Origin \in EarlyOrigins) =>
         /\ environ = env0
         /\ written = <<>>
         /\ i = 1
    /\ written = <<>> => environ = env0

\* C13's case: a second run has failed for missing keys in a process whose
\* first run published a private key of U+00E9.
C13_Witness ==
    /\ Failed
    /\ runs > 1
    /\ Origin = "l54"
    /\ ENV_VARS \subseteq DOMAIN env0
    /\ env0[PRIVATE_KEY_VAR] = <<233>>


\* C14: once load_secrets has returned, the returned mapping holds for every
\* configuration name the value os.environ holds under it, and that is the
\* value of this run's bundle (decoded, for the private key), whatever the
\* name held before the run.
C14_ReturnMirrorsPublished ==
    Published =>
        /\ DOMAIN result.map = ENV_VARS
        /\ \A k \in DOMAIN SECRET_ENV_MAPPING :
             /\ SECRET_ENV_MAPPING[k] \in DOMAIN environ
             /\ result.map[SECRET_ENV_MAPPING[k]] = environ[SECRET_ENV_MAPPING[k]]
             /\ PublishedText(secrets.d, k).ok
             /\ result.map[SECRET_ENV_MAPPING[k]] = PublishedText(secrets.d, k).v

\* C14's case: load_secrets has returned in a process where every
\* configuration name held another value before.
C14_Witness ==
    /\ Published
    /\ \A n \in ENV_VARS :
         n \in DOMAIN env0 /\ env0[n] = OldValue /\ result.map[n] # OldValue


\* The required keys under which a bundle holds the empty string.
EmptyKeys(bundle) ==
    {k \in DOMAIN SECRET_ENV_MAPPING : k \in DOMAIN bundle /\ bundle[k] = StrVal(<<>>)}

====
